---- MODULE Spec2Model ----
(***************************************************************************)
(* Model of dags/postgres_dwh_pipeline.py: the Airflow DAG                 *)
(* sql_dwh_pipeline_with_assertions (Bronze -> Silver -> Silver quality    *)
(* gate -> Gold views -> Gold quality gate) and its helper                 *)
(* run_quality_assertion.                                                  *)
(*                                                                         *)
(* Vocabulary.  Task states are written with the words of the design       *)
(* document: "Pending" is Airflow's state none/scheduled, "Running" is     *)
(* running, "Succeeded" is success, "Failed" is failed and "Skipped" is    *)
(* upstream_failed (the task body is never called).  A DAG run is          *)
(* "running", then "Completed" (success) or "Aborted" (failed).            *)
(*                                                                         *)
(* Python values are records [t, v]: t = "None", "int" (v the integer) or  *)
(* "Decimal" (v the value in hundredths: ROUND(.., 2) gives two places).   *)
(* An exception is a record [type, msg], msg the f-string as the sequence  *)
(* of its literal pieces and formatted values.  The character U+274C that  *)
(* opens the messages of the source is written "[X]", U+2717 "[x]".        *)
(***************************************************************************)
EXTENDS Integers, Sequences, FiniteSets, TLC

VARIABLES status, pc, checks, cause, raised, sent, reads, runState, ran,
          args, ret, backend, runNo, report1, crun, cpc, silverData,
          goldBuiltOn

\* A second run against the same answers (RerunSpec).
rerunVars == <<backend, runNo, report1>>

\* Two runs at once on one warehouse (ConcSpec).
concVars == <<crun, cpc, silverData, goldBuiltOn>>

vars == <<status, pc, checks, cause, raised, sent, reads, runState, ran,
          args, ret, rerunVars, concVars>>

(***************************************************************************)
(* Bounds of the model.                                                    *)
(***************************************************************************)
\* The largest count a COUNT(*) query answers, and the largest expected_value.
MaxCount == 3

\* The most answers of a deterministic executor that are not the good one.
MaxFaults == 2

(***************************************************************************)
(* Python values and their formatting.                                     *)
(***************************************************************************)
\* Decimal places of the completeness percentage: ROUND(.., 2).
PctPlaces == 2

RECURSIVE Pow10(_)
Pow10(n) == IF n = 0 THEN 1 ELSE 10 * Pow10(n - 1)

PctScale == Pow10(PctPlaces)

PyNone == [t |-> "None", v |-> 0]
PyInt(n) == [t |-> "int", v |-> n]
PyDecimal(h) == [t |-> "Decimal", v |-> h]

\* The numeric value of an int or a Decimal, in hundredths.
Scaled(x) == IF x.t = "int" THEN x.v * PctScale ELSE x.v

\* str(Decimal) of a non-negative value with two places: 9499 is "94.99".
DecimalStr(h) ==
    ToString(h \div PctScale) \o "." \o ToString((h % PctScale) \div 10)
        \o ToString(h % 10)

\* The text an f-string gives for {x}.
PyStr(x) ==
    CASE x.t = "None" -> "None"
      [] x.t = "int" -> ToString(x.v)
      [] OTHER -> DecimalStr(x.v)

\* Variant: x > y, "fail if the threshold is exceeded".
PyNe_Gt(x, y) ==
    IF x.t = "None" \/ y.t = "None"
    THEN x.t # y.t
    ELSE Scaled(x) > Scaled(y)

\* Python's x != y on numbers and None (None differs from every number).
PyNe(x, y) ==
    IF x.t = "None" \/ y.t = "None"
    THEN x.t # y.t
    ELSE Scaled(x) # Scaled(y)

(***************************************************************************)
(* Exceptions.                                                             *)
(***************************************************************************)
NoExc == [type |-> "none", msg |-> <<>>]
Exc(type, msg) == [type |-> type, msg |-> msg]

\* Errors the database driver raises from pg_hook.run / pg_hook.get_first.
DbErrors == {"connection refused", "permission denied"}
DbExc(e) == Exc("DatabaseError", <<e>>)

(***************************************************************************)
(* Results of pg_hook.get_first(query): the driver raises, or returns None *)
(* (no row), or returns the first row, whose first column is a value.      *)
(***************************************************************************)
Raise(e) == [kind |-> "raise", val |-> PyNone, err |-> e]
NoRow == [kind |-> "none", val |-> PyNone, err |-> ""]
Row(x) == [kind |-> "row", val |-> x, err |-> ""]
\* No query sent yet.
Unasked == [kind |-> "unasked", val |-> PyNone, err |-> ""]

\* result[0] if result else <default>: a row (a non-empty tuple) is truthy,
\* None is falsy.
FirstOr(result, default) == IF result.kind = "row" THEN result.val ELSE default


(***************************************************************************)
(* run_quality_assertion(pg_hook, test_name, query, expected_value): the   *)
(* exception it raises (NoExc when it returns), given what                 *)
(* pg_hook.get_first(query) did.  An error of the driver propagates.       *)
(***************************************************************************)
\* f"[X] {test_name}: Query returned NULL"
NullMsg(test_name) == <<"[X] ", test_name, ": Query returned NULL">>

\* Variant: the message leaves out the actual value.
FailedMsg_NoActual(test_name, expected_value, actual_value) ==
    <<"[X] ", test_name, " FAILED: Expected ", ToString(expected_value)>>

\* f"[X] {test_name} FAILED: Expected {expected_value}, got {actual_value}"
FailedMsg(test_name, expected_value, actual_value) ==
    <<"[X] ", test_name, " FAILED: Expected ", ToString(expected_value),
      ", got ", PyStr(actual_value)>>

run_quality_assertion(test_name, result, expected_value) ==
    IF result.kind = "raise"
    THEN DbExc(result.err)
    ELSE LET actual_value == FirstOr(result, PyNone) IN
         IF actual_value.t = "None"
         THEN Exc("AirflowException", NullMsg(test_name))
         ELSE IF PyNe(actual_value, PyInt(expected_value))
         THEN Exc("AirflowException",
                  FailedMsg(test_name, expected_value, actual_value))
         ELSE NoExc

(***************************************************************************)
(* The completeness check at the end of check_gold_quality_task: the       *)
(* exception it raises, given what pg_hook.get_first did.  None < 95.0     *)
(* raises TypeError in Python 3.  The literal text of the f-string is cut  *)
(* into pieces; their concatenation is the message.                        *)
(***************************************************************************)
\* The threshold of "if completeness < 95.0".
CompletenessThreshold == 95

\* Variant: completeness <= 95.0.
BelowThreshold_Le(completeness) ==
    Scaled(completeness) <= CompletenessThreshold * PctScale

\* completeness < 95.0, for a number.
BelowThreshold(completeness) ==
    Scaled(completeness) < CompletenessThreshold * PctScale

\* f"[X] Data completeness FAILED: {completeness}% (expected >= 95%)"
CompletenessMsg(completeness) ==
    <<"[X] ", "Data completeness", " FAILED: ", PyStr(completeness),
      "% (expected ", ">=", " ", "95", "%)">>

\* The message of Python's TypeError for None < 95.0.
NoneLtFloatMsg ==
    <<"'<' not supported between instances of 'NoneType' and 'float'">>

completeness_check(result) ==
    IF result.kind = "raise"
    THEN DbExc(result.err)
    ELSE LET completeness == FirstOr(result, PyInt(0)) IN
         IF completeness.t = "None"
         THEN Exc("TypeError", NoneLtFloatMsg)
         ELSE IF BelowThreshold(completeness)
         THEN Exc("AirflowException", CompletenessMsg(completeness))
         ELSE NoExc

(***************************************************************************)
(* The DAG: five tasks in one chain.                                       *)
(***************************************************************************)
StageOrder ==
    <<"load_bronze", "load_silver", "check_silver_quality",
      "create_gold_views", "check_gold_quality">>

Stages == 1 .. Len(StageOrder)

StageOf(task_id) == CHOOSE s \in Stages : StageOrder[s] = task_id

\* Variant: the gold views depend on load_silver, not on the silver gate.
Upstream_BypassGate(s) ==
    IF s = 1 THEN {} ELSE IF StageOrder[s] = "create_gold_views" THEN {s - 2} ELSE {s - 1}

\* Variant: the dependency line is missing, no task waits for another.
Upstream_NoChain(s) == {}

\* bronze >> silver >> silver_qc >> gold >> gold_qc
Upstream(s) == IF s = 1 THEN {} ELSE {s - 1}

\* The run_quality_assertion calls of check_silver_quality_task, in order:
\* the name, the expected value and the text of the query.
SilverAssertions ==
    <<[name |-> "No duplicate customers in silver.crm_cust_info", expected |-> 0,
       query |->
          "\n"
          \o "            SELECT COUNT(*) FROM (\n"
          \o "                SELECT cst_id, COUNT(*) \n"
          \o "                FROM silver.crm_cust_info \n"
          \o "                GROUP BY cst_id \n"
          \o "                HAVING COUNT(*) > 1\n"
          \o "            ) duplicates;\n"
          \o "            "],
      [name |-> "No NULL customer IDs in silver.crm_cust_info", expected |-> 0,
       query |->
          "SELECT COUNT(*) FROM silver.crm_cust_info WHERE cst_id IS NULL;"],
      [name |-> "No duplicate products in silver.crm_prd_info", expected |-> 0,
       query |->
          "\n"
          \o "            SELECT COUNT(*) FROM (\n"
          \o "                SELECT prd_id, COUNT(*) \n"
          \o "                FROM silver.crm_prd_info \n"
          \o "                GROUP BY prd_id \n"
          \o "                HAVING COUNT(*) > 1\n"
          \o "            ) duplicates;\n"
          \o "            "]>>

\* The run_quality_assertion calls of check_gold_quality_task, in order; the
\* completeness check follows them.
GoldAssertions ==
    <<[name |-> "No NULL customer keys in dim_customers", expected |-> 0,
       query |->
          "SELECT COUNT(*) FROM gold.dim_customers WHERE customer_key IS NULL;"],
      [name |-> "No duplicate customers in dim_customers", expected |-> 0,
       query |->
          "\n"
          \o "            SELECT COUNT(*) FROM (\n"
          \o "                SELECT customer_id, COUNT(*) \n"
          \o "                FROM gold.dim_customers \n"
          \o "                GROUP BY customer_id \n"
          \o "                HAVING COUNT(*) > 1\n"
          \o "            ) duplicates;\n"
          \o "            "],
      [name |-> "No NULL product keys in dim_products", expected |-> 0,
       query |->
          "SELECT COUNT(*) FROM gold.dim_products WHERE product_key IS NULL;"],
      [name |-> "No orphaned products in fact_sales", expected |-> 0,
       query |->
          "\n"
          \o "            SELECT COUNT(*) \n"
          \o "            FROM gold.fact_sales f\n"
          \o "            WHERE f.product_key NOT IN (\n"
          \o "                SELECT product_key \n"
          \o "                FROM gold.dim_products \n"
          \o "                WHERE product_key IS NOT NULL\n"
          \o "            );\n"
          \o "            "],
      [name |-> "No orphaned customers in fact_sales", expected |-> 0,
       query |->
          "\n"
          \o "            SELECT COUNT(*) \n"
          \o "            FROM gold.fact_sales f\n"
          \o "            WHERE f.customer_key NOT IN (\n"
          \o "                SELECT customer_key \n"
          \o "                FROM gold.dim_customers \n"
          \o "                WHERE customer_key IS NOT NULL\n"
          \o "            );\n"
          \o "            "]>>

\* The query of the completeness check.
completeness_query ==
    "\n"
    \o "            SELECT ROUND(\n"
    \o "                100.0 * SUM(CASE WHEN product_key IS NOT NULL AND customer_key IS NOT NULL THEN 1 ELSE 0 END) \n"
    \o "                / NULLIF(COUNT(*), 0), \n"
    \o "                2\n"
    \o "            ) AS completeness_percentage\n"
    \o "            FROM gold.fact_sales;\n"
    \o "        "

SilverQc == StageOf("check_silver_quality")
GoldQc == StageOf("check_gold_quality")
Gates == {SilverQc, GoldQc}

\* The number of checks of a gate: the gold gate ends with the completeness check.
NumChecks(s) ==
    IF s = SilverQc THEN Len(SilverAssertions) ELSE Len(GoldAssertions) + 1

IsCompleteness(s, k) == s = GoldQc /\ k = Len(GoldAssertions) + 1

AssertionSpec(s, k) ==
    IF s = SilverQc THEN SilverAssertions[k] ELSE GoldAssertions[k]

\* The text check k of gate s hands to pg_hook.get_first.
Query(s, k) ==
    IF IsCompleteness(s, k) THEN completeness_query ELSE AssertionSpec(s, k).query

\* What check k of gate s raises, given the result of its query.
Evaluate(s, k, result) ==
    IF IsCompleteness(s, k)
    THEN completeness_check(result)
    ELSE run_quality_assertion(AssertionSpec(s, k).name, result,
                               AssertionSpec(s, k).expected)

(***************************************************************************)
(* What the warehouse may answer.                                          *)
(***************************************************************************)
CountResults ==
    {Raise(e) : e \in DbErrors} \cup {NoRow, Row(PyNone)}
        \cup {Row(PyInt(n)) : n \in 0 .. MaxCount}

\* Completeness percentages, in hundredths: around the threshold, 0 and 100.
PctValues ==
    LET t == CompletenessThreshold * PctScale
    IN  {0, t - 1, t, t + 1, 100 * PctScale}

PctResults ==
    {Raise(e) : e \in DbErrors} \cup {NoRow, Row(PyNone)}
        \cup {Row(PyDecimal(h)) : h \in PctValues}

ResultsOf(s, k) == IF IsCompleteness(s, k) THEN PctResults ELSE CountResults

\* The outcome of a check, in the words of the design document.
Outcome(e) ==
    CASE e = NoExc -> "Passed"
      [] e.type = "AirflowException" -> "Failed"
      [] OTHER -> "Error"

NotRun == [outcome |-> "NotRun", result |-> Unasked, exc |-> NoExc]

(***************************************************************************)
(* Commands of the Action tasks.  The paths are CRM_PATH and ERP_PATH with *)
(* "\" replaced by "/" and a trailing "/".                                 *)
(***************************************************************************)
WINDOWS_PROJECT_ROOT ==
    "C:/Users/vlado/Desktop/SQL-project-last/SQL-Data-Warehouse-Project"

load_bronze_command ==
    "CALL bronze.load_bronze('" \o WINDOWS_PROJECT_ROOT
        \o "/data_sets/source_crm/" \o "', '" \o WINDOWS_PROJECT_ROOT
        \o "/data_sets/source_erp/" \o "');"

\* Variant: the procedure is called with the number of the run.
load_silver_command_Stamped ==
    "CALL silver.load_silver(" \o ToString(runNo) \o ");"

load_silver_command == "CALL silver.load_silver();"

gold_file_path == "/opt/airflow/project_root/scripts/gold/ddl_gold.sql"

\* What open(file_path, "r", encoding="utf-8") and file.read() did: gave the
\* text (OpenOk), or raised an exception, given by its class, its errno, its
\* text and whether it carries the name of the file.  An exception of the
\* operating system has errno > 0; open() raises it with the file name,
\* read() without.  Any other exception has errno 0 and its text as message.
OpenOk == [type |-> "ok", errno |-> 0, text |-> "", filename |-> FALSE]

OpenRaised(type, errno, text, filename) ==
    [type |-> type, errno |-> errno, text |-> text, filename |-> filename]

\* The exceptions drawn for open() and read() of the gold script.  From
\* open(): Python gives ENOENT, EISDIR, ENOTDIR and EACCES classes of their
\* own and raises every other errno as plain OSError (a symlink loop, a name
\* too long, no descriptor left).  From read(): an error of the device, as
\* plain OSError, and UnicodeDecodeError for a file that is not UTF-8, whose
\* text names the bytes and their position.  FileNotFoundError is the one
\* class read_sql_file catches.
OpenErrors ==
    {OpenRaised("FileNotFoundError", 2, "No such file or directory", TRUE),
     OpenRaised("IsADirectoryError", 21, "Is a directory", TRUE),
     OpenRaised("NotADirectoryError", 20, "Not a directory", TRUE),
     OpenRaised("PermissionError", 13, "Permission denied", TRUE),
     OpenRaised("OSError", 40, "Too many levels of symbolic links", TRUE),
     OpenRaised("OSError", 36, "File name too long", TRUE),
     OpenRaised("OSError", 24, "Too many open files", TRUE),
     OpenRaised("OSError", 5, "Input/output error", FALSE),
     OpenRaised("UnicodeDecodeError", 0,
        "'utf-8' codec can't decode byte 0xe9 in position 8: invalid continuation byte",
        FALSE),
     OpenRaised("UnicodeDecodeError", 0,
        "'utf-8' codec can't decode byte 0xff in position 0: invalid start byte",
        FALSE),
     OpenRaised("UnicodeDecodeError", 0,
        "'utf-8' codec can't decode bytes in position 13-14: unexpected end of data",
        FALSE)}

OpenResults == {OpenOk} \cup OpenErrors

\* repr() of a str that holds no quote, no backslash and no character that
\* is not printable, as the paths of this DAG: the text between single quotes.
PyRepr(s) == "'" \o s \o "'"

\* str() of the exception open()/read() raised: "[Errno n] text: 'path'" from
\* open(), "[Errno n] text" from read(), the text alone without errno.
OpenErrorMsg(opened, file_path) ==
    IF opened.errno = 0
    THEN <<opened.text>>
    ELSE IF opened.filename
    THEN <<"[Errno " \o ToString(opened.errno) \o "] " \o opened.text \o ": ",
           PyRepr(file_path)>>
    ELSE <<"[Errno " \o ToString(opened.errno) \o "] " \o opened.text>>

\* Variant: a file that cannot be read is reported and an empty script
\* returned.
read_sql_file_Swallowed(file_path, opened) ==
    [exc |-> NoExc,
     content |-> IF opened = OpenOk THEN "<content of " \o file_path \o ">" ELSE ""]

\* read_sql_file(file_path): the content of the file; FileNotFoundError is
\* raised again with the message of the source; any other exception of
\* open() or read() is not caught and leaves the function as it is.
read_sql_file(file_path, opened) ==
    CASE opened = OpenOk ->
            [exc |-> NoExc, content |-> "<content of " \o file_path \o ">"]
      [] opened.type = "FileNotFoundError" ->
            [exc |-> Exc("FileNotFoundError",
                         <<"[x] CRITICAL: SQL file not found at ", file_path>>),
             content |-> ""]
      [] OTHER ->
            [exc |-> Exc(opened.type, OpenErrorMsg(opened, file_path)),
             content |-> ""]

\* What pg_hook.run(sql) may do: complete, or raise an error of the driver.
RunResults == {"ok"} \cup DbErrors

\* Variant: an error of pg_hook.run is caught and logged.
RunExc_Swallowed(r) == NoExc

\* The exception pg_hook.run leaves the task with.
RunExc(r) == IF r = "ok" THEN NoExc ELSE DbExc(r)

(***************************************************************************)
(* The state.                                                              *)
(*   status[s]   the state of task s in the DAG run                        *)
(*   pc[s]       in a gate: the check about to run                         *)
(*   checks[s][k] for check k of gate s: its outcome, the result its query *)
(*               got and the exception it raised                           *)
(*   cause[s]    the exception task s ended with (NoExc: none)             *)
(*   raised      the exceptions raised inside task bodies, in order        *)
(*   sent        the commands handed to pg_hook.run, in order, by stage,   *)
(*               each with what pg_hook.run did                            *)
(*   reads       the calls of read_sql_file: the path, and what opening    *)
(*               and reading the file did                                  *)
(*   runState    the state of the DAG run                                  *)
(*   ran         the tasks whose body was called                           *)
(*   args, ret   one call of run_quality_assertion on its own (UnitSpec)   *)
(*   backend     what the warehouse answers: anything (Spec), or a         *)
(*               function of the text it is sent, the same for both runs   *)
(*               (RerunSpec)                                               *)
(*   runNo, report1  the number of the run, the report of the first run    *)
(*   crun, cpc, silverData, goldBuiltOn  two runs at once (ConcSpec)       *)
(***************************************************************************)
\* A backend that may answer anything at every call.
FreeBackend == [fixed |-> FALSE, run |-> <<>>, first |-> <<>>, opened |-> OpenOk]

\* The answer that lets check k of gate s pass: count 0, completeness 100.00.
GoodAnswer(s, k) ==
    IF IsCompleteness(s, k) THEN Row(PyDecimal(100 * PctScale)) ELSE Row(PyInt(0))

\* The script create_gold_views_task hands to pg_hook.run.
gold_script == read_sql_file(gold_file_path, OpenOk).content

\* The texts the Action tasks hand to pg_hook.run.
CommandTexts == {load_bronze_command, load_silver_command, gold_script}

\* The checks of the gates, and the texts they hand to pg_hook.get_first.
GateChecks == UNION {{<<s, k>> : k \in 1 .. NumChecks(s)} : s \in Gates}

QueryTexts == {Query(c[1], c[2]) : c \in GateChecks}

CheckOf(q) == CHOOSE c \in GateChecks : Query(c[1], c[2]) = q

\* A deterministic executor: what pg_hook.run does is a function of the
\* command, what pg_hook.get_first returns a function of the query, and the
\* file is in one state.  Here every call succeeds and every check passes.
GoodBackend ==
    [fixed |-> TRUE,
     run |-> [t \in CommandTexts |-> "ok"],
     first |-> [q \in QueryTexts |-> GoodAnswer(CheckOf(q)[1], CheckOf(q)[2])],
     opened |-> OpenOk]

\* The backends that differ from b in the answer to one command, to one
\* query or in the state of the file.
OneFault(b) ==
    {[b EXCEPT !.run[t] = r] : t \in CommandTexts, r \in RunResults}
    \cup UNION {{[b EXCEPT !.first[q] = r] :
                    r \in ResultsOf(CheckOf(q)[1], CheckOf(q)[2])} :
                q \in QueryTexts}
    \cup {[b EXCEPT !.opened = o] : o \in OpenResults}

\* The deterministic executors with at most n answers that are not the good
\* one.
RECURSIVE WithFaults(_)
WithFaults(n) ==
    IF n = 0 THEN {GoodBackend} ELSE UNION {OneFault(b) : b \in WithFaults(n - 1)}

\* What pg_hook.get_first may return to check k of gate s.
Answers(s, k) ==
    IF ~backend.fixed THEN ResultsOf(s, k)
    ELSE IF Query(s, k) \in DOMAIN backend.first
    THEN {backend.first[Query(s, k)]}
    ELSE {GoodAnswer(s, k)}

\* What pg_hook.run may do for the command sql.
CommandResults(sql) ==
    IF ~backend.fixed THEN RunResults
    ELSE IF sql \in DOMAIN backend.run THEN {backend.run[sql]}
    ELSE {"ok"}

\* What opening and reading the gold script may do when read_sql_file is
\* called.
OpenOutcomes == IF ~backend.fixed THEN OpenResults ELSE {backend.opened}

NoReport == [status |-> <<>>, checks |-> <<>>, cause |-> <<>>, runState |-> "none"]

NoArgs == [test_name |-> "", result |-> Unasked, expected_value |-> 0]
NotCalled == [called |-> FALSE, exc |-> NoExc]

PipelineInit ==
    /\ status = [s \in Stages |-> "Pending"]
    /\ pc = [s \in Gates |-> 1]
    /\ checks = [s \in Gates |-> [k \in 1 .. NumChecks(s) |-> NotRun]]
    /\ cause = [s \in Stages |-> NoExc]
    /\ raised = <<>>
    /\ sent = <<>>
    /\ reads = <<>>
    /\ ran = {}

\* The parts of the state a specification does not use.
NoRerun ==
    /\ backend = FreeBackend
    /\ runNo = 1
    /\ report1 = NoReport

NoConc ==
    /\ crun = <<>>
    /\ cpc = <<>>
    /\ silverData = <<>>
    /\ goldBuiltOn = <<>>

Init ==
    /\ PipelineInit
    /\ runState = "running"
    /\ args = NoArgs
    /\ ret = NotCalled
    /\ NoRerun
    /\ NoConc

(***************************************************************************)
(* The scheduler, for the chain of line 316 with the default trigger rule  *)
(* (all_success) and no retries.                                           *)
(***************************************************************************)
\* Variant: trigger rule all_done, a task runs once its upstream has ended.
TriggerRule_AllDone(s) ==
    \A u \in Upstream(s) : status[u] \in {"Succeeded", "Failed", "Skipped"}

\* all_success: every upstream task succeeded.
TriggerRule(s) == \A u \in Upstream(s) : status[u] = "Succeeded"

\* Some upstream task failed or was itself not run.
UpstreamFailed(s) == \E u \in Upstream(s) : status[u] \in {"Failed", "Skipped"}

\* Variant: a task not run because of its upstream is reported as failed.
UpstreamFailedState_Failed == "Failed"

\* The state of a task that is not run because of its upstream: Airflow's
\* upstream_failed.
UpstreamFailedState == "Skipped"

\* Variant: retries are configured, a task whose body raised is queued again.
TaskEnd_Retry(e) == IF e = NoExc THEN "Succeeded" ELSE "Pending"

\* The state a task ends in when its body ends with exception e.
TaskEnd(e) == IF e = NoExc THEN "Succeeded" ELSE "Failed"

\* Variant: the exception is wrapped and its message lost.
Reraise_Wrapped(e) ==
    IF e = NoExc THEN e ELSE Exc("AirflowException", <<"Task failed">>)

\* The exception recorded for a task whose body raised e: e itself.
Reraise(e) == e

\* The body of task s ends: it returned (NoExc) or exception e left it.
Finish(s, e) ==
    /\ status' = [status EXCEPT ![s] = TaskEnd(e)]
    /\ cause' = [cause EXCEPT ![s] = Reraise(e)]
    /\ raised' = IF e = NoExc THEN raised
                 ELSE Append(raised, [stage |-> s, exc |-> e])

\* The body of a gate task, when called, starts at its first check.
StartPc(s) == 1

\* The scheduler calls the body of task s.
Schedule(s) ==
    /\ runState = "running"
    /\ status[s] = "Pending"
    /\ TriggerRule(s)
    /\ status' = [status EXCEPT ![s] = "Running"]
    /\ ran' = ran \cup {s}
    /\ pc' = IF s \in Gates THEN [pc EXCEPT ![s] = StartPc(s)] ELSE pc
    /\ UNCHANGED <<checks, cause, raised, sent, reads, runState, args, ret,
                   rerunVars, concVars>>

MarkUpstreamFailed(s) ==
    /\ runState = "running"
    /\ status[s] = "Pending"
    /\ UpstreamFailed(s)
    /\ status' = [status EXCEPT ![s] = UpstreamFailedState]
    /\ UNCHANGED <<pc, checks, cause, raised, sent, reads, runState, ran, args, ret, rerunVars, concVars>>

Finished(s) == status[s] \in {"Succeeded", "Failed", "Skipped"}

\* Variant: the run is reported by its first task alone.
RunEnd_FirstOnly ==
    IF status[1] = "Succeeded" THEN "Completed" ELSE "Aborted"

\* The DAG run ends when every task is finished: success iff all succeeded.
RunEnd == IF \A s \in Stages : status[s] = "Succeeded" THEN "Completed" ELSE "Aborted"

FinishRun ==
    /\ runState = "running"
    /\ \A s \in Stages : Finished(s)
    /\ runState' = RunEnd
    /\ UNCHANGED <<status, pc, checks, cause, raised, sent, reads, ran, args, ret, rerunVars, concVars>>

(***************************************************************************)
(* The task bodies.                                                        *)
(***************************************************************************)
\* An Action task: one pg_hook.run(sql_command).
RunCommand(s, sql_command) ==
    \E r \in CommandResults(sql_command) :
        /\ sent' = Append(sent, [stage |-> s, sql |-> sql_command, result |-> r])
        /\ Finish(s, RunExc(r))

load_bronze_task ==
    /\ status[StageOf("load_bronze")] = "Running"
    /\ RunCommand(StageOf("load_bronze"), load_bronze_command)
    /\ UNCHANGED <<reads, pc, checks, runState, ran, args, ret, rerunVars, concVars>>

load_silver_task ==
    /\ status[StageOf("load_silver")] = "Running"
    /\ RunCommand(StageOf("load_silver"), load_silver_command)
    /\ UNCHANGED <<reads, pc, checks, runState, ran, args, ret, rerunVars, concVars>>

create_gold_views_task ==
    /\ status[StageOf("create_gold_views")] = "Running"
    /\ \E opened \in OpenOutcomes :
          LET sql_script == read_sql_file(gold_file_path, opened) IN
          /\ reads' = Append(reads, [path |-> gold_file_path, opened |-> opened])
          /\ IF sql_script.exc # NoExc
             THEN /\ Finish(StageOf("create_gold_views"), sql_script.exc)
                  /\ UNCHANGED sent
             ELSE RunCommand(StageOf("create_gold_views"), sql_script.content)
    /\ UNCHANGED <<pc, checks, runState, ran, args, ret, rerunVars, concVars>>

\* Variant: the task catches what a check raises and goes on.
Propagates_Caught(e) == FALSE

\* An exception raised by a check is not caught in the task: it leaves it.
Propagates(e) == e # NoExc

\* Variant: a gate also runs a statement that changes the warehouse.
GateCommands_Cleanup(s) ==
    <<[stage |-> s, sql |-> "DELETE FROM silver.crm_cust_info WHERE cst_id IS NULL;",
       result |-> "ok"]>>

\* The commands a step of a gate hands to pg_hook.run: none, a gate calls
\* pg_hook.get_first only, with SELECT queries.
GateCommands(s) == <<>>

\* One check of a gate: its query, then the comparison.  An exception ends the
\* task; after the last check the task returns.
GateStep(s) ==
    /\ status[s] = "Running"
    /\ LET k == pc[s] IN
       IF k <= NumChecks(s)
       THEN \E result \in Answers(s, k) :
               LET e == Evaluate(s, k, result) IN
               /\ checks' = [checks EXCEPT ![s][k] =
                               [outcome |-> Outcome(e), result |-> result, exc |-> e]]
               /\ IF ~Propagates(e)
                  THEN /\ pc' = [pc EXCEPT ![s] = k + 1]
                       /\ UNCHANGED <<status, cause, raised>>
                  ELSE /\ Finish(s, e)
                       /\ UNCHANGED pc
       ELSE /\ Finish(s, NoExc)
            /\ UNCHANGED <<pc, checks>>
    /\ sent' = sent \o GateCommands(s)
    /\ UNCHANGED <<reads, runState, ran, args, ret, rerunVars, concVars>>

check_silver_quality_task == GateStep(SilverQc)

check_gold_quality_task == GateStep(GoldQc)

Next ==
    \/ \E s \in Stages : Schedule(s)
    \/ \E s \in Stages : MarkUpstreamFailed(s)
    \/ FinishRun
    \/ load_bronze_task
    \/ load_silver_task
    \/ check_silver_quality_task
    \/ create_gold_views_task
    \/ check_gold_quality_task

Spec == Init /\ [][Next]_vars

\* The run with its scheduling: the scheduler goes on while a task can be
\* scheduled, marked or ended, and every call to the database returns or raises.
FairSpec == Spec /\ WF_vars(Next)

(***************************************************************************)
(* The DAG triggered twice, one run after the other, on a warehouse whose  *)
(* answers are the same for both runs.                                     *)
(***************************************************************************)
\* The report of a run: the state of every task, the outcome of every check
\* with its result and its exception, the cause of every task, the state of
\* the run.
Report ==
    [status |-> status, checks |-> checks, cause |-> cause, runState |-> runState]

RerunInit ==
    /\ PipelineInit
    /\ runState = "running"
    /\ args = NoArgs
    /\ ret = NotCalled
    /\ runNo = 1
    /\ backend \in WithFaults(MaxFaults)
    /\ report1 = NoReport
    /\ NoConc

\* The DAG is triggered again after its first run ended: a new DAG run, every
\* task Pending, nothing executed.
Retrigger ==
    /\ runNo = 1
    /\ runState \in {"Completed", "Aborted"}
    /\ report1' = Report
    /\ runNo' = 2
    /\ runState' = "running"
    /\ status' = [s \in Stages |-> "Pending"]
    /\ checks' = [s \in Gates |-> [k \in 1 .. NumChecks(s) |-> NotRun]]
    /\ cause' = [s \in Stages |-> NoExc]
    /\ raised' = <<>>
    /\ sent' = <<>>
    /\ reads' = <<>>
    /\ ran' = {}
    /\ UNCHANGED <<pc, backend, args, ret, concVars>>

RerunNext == Next \/ Retrigger

RerunSpec == RerunInit /\ [][RerunNext]_vars

(***************************************************************************)
(* Two runs of the DAG at once on one warehouse.  The @dag call sets no    *)
(* max_active_runs and schedule=None leaves the runs to manual triggers,   *)
(* so Airflow lets several runs of the DAG be active together.  A step is  *)
(* one call to the database: an Action task is one step, a gate one step   *)
(* for each of its queries.  crun[r][s] is the state of task s in run r,   *)
(* cpc[r][s] the check gate s of run r is about to run.  silverData is     *)
(* what the Silver tables hold, as the three queries of the silver gate    *)
(* count it; CALL silver.load_silver() rewrites the tables, to any         *)
(* content.  goldBuiltOn[r] is the Silver content at the moment run r      *)
(* executed the gold script.                                               *)
(***************************************************************************)
\* The runs active together.
NumRuns == 2

Runs == 1 .. NumRuns

\* The violations each silver assertion may count in a content of the tables.
SilverContents == [DOMAIN SilverAssertions -> {0, 1}]

NotBuilt == [built |-> FALSE, data |-> [k \in DOMAIN SilverAssertions |-> 0]]

\* What check_silver_quality_task raises when its three queries are answered
\* from one content d of the Silver tables: what its first failing assertion
\* raises.
SilverGateExc(d) ==
    LET raises(k) ==
            run_quality_assertion(SilverAssertions[k].name, Row(PyInt(d[k])),
                                  SilverAssertions[k].expected)
        failing == {k \in DOMAIN SilverAssertions : raises(k) # NoExc}
    IN  IF failing = {} THEN NoExc
        ELSE raises(CHOOSE k \in failing : \A j \in failing : k <= j)

\* What pg_hook.get_first may return to check k of gate s of a run: the
\* driver raises, returns no row or a NULL, or returns the count; for the
\* silver gate the count is that of the Silver tables as they are when the
\* query runs.
CAnswers(s, k) ==
    IF s = SilverQc
    THEN {Raise(e) : e \in DbErrors} \cup {NoRow, Row(PyNone)}
            \cup {Row(PyInt(silverData[k]))}
    ELSE ResultsOf(s, k)

ConcInit ==
    /\ PipelineInit
    /\ runState = "concurrent"
    /\ args = NoArgs
    /\ ret = NotCalled
    /\ NoRerun
    /\ crun = [r \in Runs |-> [s \in Stages |-> "Pending"]]
    /\ cpc = [r \in Runs |-> [s \in Gates |-> 1]]
    /\ silverData = [k \in DOMAIN SilverAssertions |-> 0]
    /\ goldBuiltOn = [r \in Runs |-> NotBuilt]

ConcIdle ==
    UNCHANGED <<status, pc, checks, cause, raised, sent, reads, runState, ran,
                args, ret, rerunVars>>

CSchedule(r, s) ==
    /\ crun[r][s] = "Pending"
    /\ \A u \in Upstream(s) : crun[r][u] = "Succeeded"
    /\ crun' = [crun EXCEPT ![r][s] = "Running"]
    /\ cpc' = IF s \in Gates THEN [cpc EXCEPT ![r][s] = StartPc(s)] ELSE cpc
    /\ UNCHANGED <<silverData, goldBuiltOn>>
    /\ ConcIdle

CMarkUpstreamFailed(r, s) ==
    /\ crun[r][s] = "Pending"
    /\ \E u \in Upstream(s) : crun[r][u] \in {"Failed", "Skipped"}
    /\ crun' = [crun EXCEPT ![r][s] = UpstreamFailedState]
    /\ UNCHANGED <<cpc, silverData, goldBuiltOn>>
    /\ ConcIdle

CLoadBronze(r) ==
    /\ crun[r][StageOf("load_bronze")] = "Running"
    /\ \E res \in RunResults :
          crun' = [crun EXCEPT ![r][StageOf("load_bronze")] = TaskEnd(RunExc(res))]
    /\ UNCHANGED <<cpc, silverData, goldBuiltOn>>
    /\ ConcIdle

CLoadSilver(r) ==
    /\ crun[r][StageOf("load_silver")] = "Running"
    /\ \E res \in RunResults :
          /\ crun' = [crun EXCEPT ![r][StageOf("load_silver")] = TaskEnd(RunExc(res))]
          /\ IF res = "ok"
             THEN silverData' \in SilverContents
             ELSE silverData' = silverData
    /\ UNCHANGED <<cpc, goldBuiltOn>>
    /\ ConcIdle

\* One check of a gate of run r: its query, answered from the warehouse as it
\* is now, then the comparison.  Between two checks the tasks of the other
\* runs may run.
CGateStep(r, s) ==
    /\ crun[r][s] = "Running"
    /\ LET k == cpc[r][s] IN
       IF k <= NumChecks(s)
       THEN \E result \in CAnswers(s, k) :
               LET e == Evaluate(s, k, result) IN
               IF ~Propagates(e)
               THEN /\ cpc' = [cpc EXCEPT ![r][s] = k + 1]
                    /\ UNCHANGED crun
               ELSE /\ crun' = [crun EXCEPT ![r][s] = TaskEnd(e)]
                    /\ UNCHANGED cpc
       ELSE /\ crun' = [crun EXCEPT ![r][s] = TaskEnd(NoExc)]
            /\ UNCHANGED cpc
    /\ UNCHANGED <<silverData, goldBuiltOn>>
    /\ ConcIdle

CCheckSilver(r) == CGateStep(r, SilverQc)

\* read_sql_file, then pg_hook.run(sql_script): the views are built on the
\* Silver tables as they are when the script runs.
CCreateGold(r) ==
    /\ crun[r][StageOf("create_gold_views")] = "Running"
    /\ \E opened \in OpenResults, res \in RunResults :
          LET sql_script == read_sql_file(gold_file_path, opened)
              e == IF sql_script.exc # NoExc THEN sql_script.exc ELSE RunExc(res)
          IN  /\ crun' = [crun EXCEPT ![r][StageOf("create_gold_views")] =
                             TaskEnd(e)]
              /\ goldBuiltOn' =
                    IF e = NoExc
                    THEN [goldBuiltOn EXCEPT
                            ![r] = [built |-> TRUE, data |-> silverData]]
                    ELSE goldBuiltOn
    /\ UNCHANGED <<cpc, silverData>>
    /\ ConcIdle

CCheckGold(r) == CGateStep(r, GoldQc)

ConcNext ==
    \E r \in Runs :
        \/ \E s \in Stages : CSchedule(r, s)
        \/ \E s \in Stages : CMarkUpstreamFailed(r, s)
        \/ CLoadBronze(r)
        \/ CLoadSilver(r)
        \/ CCheckSilver(r)
        \/ CCreateGold(r)
        \/ CCheckGold(r)

ConcSpec == ConcInit /\ [][ConcNext]_vars

(***************************************************************************)
(* run_quality_assertion on its own: one call on drawn arguments.          *)
(***************************************************************************)
TestNames ==
    {SilverAssertions[k].name : k \in DOMAIN SilverAssertions}
        \cup {GoldAssertions[k].name : k \in DOMAIN GoldAssertions}

UnitInit ==
    /\ PipelineInit
    /\ runState = "idle"
    /\ args \in [test_name : TestNames, result : CountResults,
                 expected_value : 0 .. MaxCount]
    /\ ret = NotCalled
    /\ NoRerun
    /\ NoConc

Call ==
    /\ runState = "idle"
    /\ ~ret.called
    /\ ret' = [called |-> TRUE,
               exc |-> run_quality_assertion(args.test_name, args.result,
                                             args.expected_value)]
    /\ UNCHANGED <<status, pc, checks, cause, raised, sent, reads, runState, ran, args, rerunVars, concVars>>

UnitNext == Call

UnitSpec == UnitInit /\ [][UnitNext]_vars

(***************************************************************************)
(* Properties.                                                             *)
(***************************************************************************)
ChecksOf(s) == 1 .. NumChecks(s)

\* The body of stage s was never executed: not called, no command, no query.
NeverExecuted(s) ==
    /\ s \notin ran
    /\ \A i \in DOMAIN sent : sent[i].stage # s
    /\ s \in Gates => \A k \in ChecksOf(s) : checks[s][k] = NotRun

\* The index the run aborted at: the first stage that did not succeed.
AbortIndex ==
    CHOOSE i \in Stages :
        status[i] # "Succeeded" /\ \A j \in 1 .. i - 1 : status[j] = "Succeeded"

\* C1: if stage i fails, no later stage is ever executed, and when the run has
\* ended every later stage is Skipped and the run is Aborted at index i.
C1_FailureSkipsRest ==
    \A i \in Stages :
        status[i] = "Failed" =>
            /\ \A j \in Stages : j > i =>
                  status[j] \in {"Pending", "Skipped"} /\ NeverExecuted(j)
            /\ runState # "running" =>
                  /\ runState = "Aborted"
                  /\ AbortIndex = i
                  /\ \A j \in Stages : j > i => status[j] = "Skipped"

C1_Witness ==
    /\ runState = "Aborted"
    /\ status[SilverQc] = "Failed"
    /\ status[GoldQc] = "Skipped"

\* C2: a stage starts only when every stage before it in the fixed order has
\* Succeeded; create_gold_views is never executed unless check_silver_quality
\* Succeeded.
C2_StartsInOrder ==
    /\ [][\A s \in Stages :
            (status[s] = "Pending" /\ status'[s] = "Running") =>
                \A u \in 1 .. s - 1 : status[u] = "Succeeded"]_vars
    /\ [](\A s \in Stages : s \in ran => \A u \in 1 .. s - 1 : u \in ran)
    /\ [](StageOf("create_gold_views") \in ran => status[SilverQc] = "Succeeded")

C2_Witness ==
    /\ status[StageOf("create_gold_views")] = "Running"
    /\ status[SilverQc] = "Succeeded"

\* C3: in both gates a check has run only if every check declared before it
\* Passed: after the first Failed or Error check every later check is NotRun,
\* its query never sent.
C3_FailFastInOrder ==
    \A s \in Gates : \A i, j \in ChecksOf(s) :
        (i < j /\ checks[s][i].outcome # "Passed") =>
            /\ checks[s][j].outcome = "NotRun"
            /\ checks[s][j].result = Unasked

C3_Witness ==
    /\ status[GoldQc] = "Failed"
    /\ checks[GoldQc][3].outcome = "Failed"
    /\ checks[GoldQc][NumChecks(GoldQc)].outcome = "NotRun"

\* The first check of gate s that did not pass (0: none).
FirstFailing(s) ==
    IF \E k \in ChecksOf(s) : checks[s][k].outcome \in {"Failed", "Error"}
    THEN CHOOSE k \in ChecksOf(s) :
            /\ checks[s][k].outcome \in {"Failed", "Error"}
            /\ \A i \in 1 .. k - 1 : checks[s][i].outcome \notin {"Failed", "Error"}
    ELSE 0

AllPassed(s) == \A k \in ChecksOf(s) : checks[s][k].outcome = "Passed"

\* C4: a gate that has ended is Succeeded iff every check of it passed;
\* otherwise it is Failed and its cause is what its first failing check raised.
C4_GateOutcome ==
    \A s \in Gates :
        /\ status[s] = "Succeeded" => AllPassed(s)
        /\ (AllPassed(s) /\ pc[s] > NumChecks(s) /\ status[s] # "Running")
              => status[s] = "Succeeded"
        /\ (s \in ran /\ status[s] # "Running" /\ ~AllPassed(s)) =>
              /\ status[s] = "Failed"
              /\ FirstFailing(s) # 0
              /\ cause[s] = checks[s][FirstFailing(s)].exc
              /\ cause[s] # NoExc
        /\ status[s] = "Failed" => ~AllPassed(s)

C4_Witness ==
    /\ status[SilverQc] = "Failed"
    /\ checks[SilverQc][1].outcome = "Passed"
    /\ checks[SilverQc][2].outcome = "Failed"
    /\ cause[SilverQc] = checks[SilverQc][2].exc

\* The reason msg holds the text tok as one of its pieces.
Contains(msg, tok) == \E i \in DOMAIN msg : msg[i] = tok

\* The reason msg states "expected e, got a": the two values, in this order.
StatesExpectedGot(msg, e, a) ==
    \E i, j \in DOMAIN msg : i < j /\ msg[i] = e /\ msg[j] = a

\* C5: run_quality_assertion on a present integer value passes iff
\* actual == expected, and otherwise raises AirflowException with a reason
\* stating the expected and then the actual value.
C5_EqualsComparator ==
    (ret.called /\ args.result.kind = "row" /\ args.result.val.t = "int") =>
        LET actual == args.result.val.v
            expected == args.expected_value
        IN  /\ (ret.exc = NoExc) <=> (actual = expected)
            /\ actual # expected =>
                  /\ ret.exc.type = "AirflowException"
                  /\ StatesExpectedGot(ret.exc.msg, ToString(expected),
                                       ToString(actual))

C5_Witness ==
    /\ ret.called
    /\ args.result = Row(PyInt(3))
    /\ args.expected_value = 0
    /\ StatesExpectedGot(ret.exc.msg, "0", "3")

\* The completeness check of the gold gate.
Completeness == checks[GoldQc][NumChecks(GoldQc)]

\* C6: the completeness check on a present value passes iff the value is
\* >= 95: 95.00 passes, 94.99 fails.
C6_GreaterOrEqualComparator ==
    (Completeness.result.kind = "row" /\ Completeness.result.val.t # "None") =>
        /\ (Completeness.outcome = "Passed")
              <=> (Scaled(Completeness.result.val) >= 95 * PctScale)
        /\ (Completeness.outcome = "Failed")
              <=> (Scaled(Completeness.result.val) < 95 * PctScale)

C6_Witness ==
    /\ Completeness.result = Row(PyDecimal(95 * PctScale))
    /\ Completeness.outcome = "Passed"
    /\ status[GoldQc] = "Succeeded"

\* The failure "query returned no value" of the design document: the
\* AirflowException "Query returned NULL" of the source.
IsMissingResult(e) ==
    /\ e.type = "AirflowException"
    /\ Contains(e.msg, ": Query returned NULL")

\* C7: in every gate a query that returns no row yields the MissingResult
\* failure; the absent result is never compared as the value 0.
C7_NoRowIsMissingResult ==
    \A s \in Gates : \A k \in ChecksOf(s) :
        checks[s][k].result = NoRow => IsMissingResult(checks[s][k].exc)

\* C8: a completeness query that returns a row holding NULL (gold.fact_sales
\* has no rows) yields the MissingResult failure, no other error.
C8_NullCompletenessIsMissingResult ==
    Completeness.result = Row(PyNone) => IsMissingResult(Completeness.exc)

\* C9: in an aborted run exactly one stage is Failed; the stages before it
\* Succeeded, the stages after it are Skipped and were never executed; only
\* one exception was raised in the run, in that stage, and the cause of the
\* abort is that exception unchanged.
C9_SingleRootCause ==
    runState = "Aborted" =>
        \E f \in Stages :
            /\ status[f] = "Failed"
            /\ \A j \in Stages : j # f => status[j] # "Failed" /\ cause[j] = NoExc
            /\ \A j \in Stages : j < f => status[j] = "Succeeded"
            /\ \A j \in Stages : j > f => status[j] = "Skipped" /\ NeverExecuted(j)
            /\ Len(raised) = 1
            /\ raised[1].stage = f
            /\ cause[AbortIndex] = raised[1].exc
            /\ f \in Gates => cause[f] = checks[f][FirstFailing(f)].exc

\* Scenario B: duplicate customers, expected 0, got 2.
C9_Witness ==
    /\ runState = "Aborted"
    /\ AbortIndex = SilverQc
    /\ checks[SilverQc][1].result = Row(PyInt(2))
    /\ cause[SilverQc] =
          Exc("AirflowException",
              <<"[X] ", "No duplicate customers in silver.crm_cust_info",
                " FAILED: Expected ", "0", ", got ", "2">>)
    /\ status[StageOf("create_gold_views")] = "Skipped"
    /\ status[GoldQc] = "Skipped"

\* The words and signs that name a comparator.
ComparatorWords ==
    {"Equals", "==", "=", "!=", "GreaterOrEqual", ">=", "LessOrEqual", "<="}

NamesComparator(msg) == \E w \in ComparatorWords : Contains(msg, w)

\* The name of check k of gate s, and its expected value as its reason writes it.
CheckName(s, k) ==
    IF IsCompleteness(s, k) THEN "Data completeness" ELSE AssertionSpec(s, k).name

CheckExpected(s, k) ==
    IF IsCompleteness(s, k) THEN "95" ELSE ToString(AssertionSpec(s, k).expected)

\* The value check k of gate s compared: the first column of the row, or the
\* default of the check when there is no row.
Compared(s, k) ==
    FirstOr(checks[s][k].result, IF IsCompleteness(s, k) THEN PyInt(0) ELSE PyNone)

\* Check k of gate s compared a number and the comparison failed.
ComparisonFailed(s, k) ==
    /\ checks[s][k].result.kind \in {"row", "none"}
    /\ Compared(s, k).t # "None"
    /\ checks[s][k].outcome = "Failed"

\* C10 as stated: the reason of every failed comparison holds the name, the
\* comparator, the expected value and the actual value.
C10_ReasonHasAllFour ==
    \A s \in Gates : \A k \in ChecksOf(s) :
        ComparisonFailed(s, k) =>
            /\ Contains(checks[s][k].exc.msg, CheckName(s, k))
            /\ NamesComparator(checks[s][k].exc.msg)
            /\ Contains(checks[s][k].exc.msg, CheckExpected(s, k))
            /\ Contains(checks[s][k].exc.msg, PyStr(Compared(s, k)))

\* C10 amended: the reason of every failed comparison holds the name, the
\* expected value and the actual value; it names the comparator (>=) in the
\* completeness check only, the reason of run_quality_assertion names none.
C10_ReasonHasNameExpectedActual ==
    \A s \in Gates : \A k \in ChecksOf(s) :
        ComparisonFailed(s, k) =>
            /\ Contains(checks[s][k].exc.msg, CheckName(s, k))
            /\ Contains(checks[s][k].exc.msg, CheckExpected(s, k))
            /\ Contains(checks[s][k].exc.msg, PyStr(Compared(s, k)))
            /\ NamesComparator(checks[s][k].exc.msg) <=> IsCompleteness(s, k)
            /\ IsCompleteness(s, k) => Contains(checks[s][k].exc.msg, ">=")

C10_Witness ==
    /\ ComparisonFailed(SilverQc, 3)
    /\ checks[SilverQc][3].result = Row(PyInt(1))
    /\ ~NamesComparator(checks[SilverQc][3].exc.msg)


Terminal == runState \in {"Completed", "Aborted"}

\* C11: every run ends, in one terminal state that it then keeps; the state is
\* Completed iff all five stages Succeeded, and then the three commands were
\* sent in pipeline order and every check of both gates Passed.
C11_TerminatesOnce ==
    /\ <>Terminal
    /\ [][Terminal => runState' = runState /\ status' = status]_vars
    /\ [](runState # "running" => Terminal)
    /\ [](Terminal =>
            (runState = "Completed" <=> \A s \in Stages : status[s] = "Succeeded"))
    /\ [](runState = "Completed" =>
            /\ status = [s \in Stages |-> "Succeeded"]
            /\ [i \in DOMAIN sent |-> StageOrder[sent[i].stage]]
                  = <<"load_bronze", "load_silver", "create_gold_views">>
            /\ \A s \in Gates : AllPassed(s))

C11_Witness ==
    /\ runState = "Completed"
    /\ \A s \in Stages : status[s] = "Succeeded"
    /\ Len(sent) = 3

\* C12: nothing runs twice in a run.  A check that has an outcome keeps it, a
\* stage that ended keeps its state, a stage is called at most once and sends
\* at most one command, and at most one exception is raised in a run.
C12_NothingRunsTwice ==
    /\ [][\A s \in Gates : \A k \in ChecksOf(s) :
            checks[s][k].outcome # "NotRun" => checks'[s][k] = checks[s][k]]_vars
    /\ [][\A s \in Stages : Finished(s) => status'[s] = status[s]]_vars
    /\ [][\A s \in Stages :
            (status[s] # "Running" /\ status'[s] = "Running") => s \notin ran]_vars
    /\ [](\A i, j \in DOMAIN sent : sent[i].stage = sent[j].stage => i = j)
    /\ [](Len(raised) <= 1)

C12_Witness ==
    /\ runState = "Aborted"
    /\ status[GoldQc] = "Failed"
    /\ checks[GoldQc][2].outcome = "Error"
    /\ Len(raised) = 1

\* C16: at most one stage is Running; the stages before it Succeeded and the
\* stages after it are Pending.
C16_OneRunningStage ==
    \A s \in Stages :
        status[s] = "Running" =>
            /\ \A u \in Stages : u < s => status[u] = "Succeeded"
            /\ \A u \in Stages : u > s => status[u] = "Pending"

C16_Witness ==
    /\ status[SilverQc] = "Running"
    /\ pc[SilverQc] = 2
    /\ status[StageOf("load_silver")] = "Succeeded"
    /\ status[StageOf("create_gold_views")] = "Pending"


\* A step of a gate: the gate is Running and one of its checks gets its
\* outcome, or the gate ends.
GateActs(s) ==
    /\ status[s] = "Running"
    /\ checks'[s] # checks[s] \/ status'[s] # status[s]

\* C14: a step of a quality gate hands no command to pg_hook.run, whatever the
\* outcome of the gate (the commands are the only statements of the DAG that
\* change the warehouse; a gate sends SELECT queries through get_first), and
\* no command of a run comes from a gate.
C14_GatesOnlyRead ==
    /\ [][\A s \in Gates : GateActs(s) => sent' = sent]_vars
    /\ [](\A i \in DOMAIN sent : sent[i].stage \notin Gates)

C14_Witness ==
    /\ status[SilverQc] = "Failed"
    /\ status[StageOf("load_silver")] = "Succeeded"
    /\ checks[SilverQc][2].outcome = "Failed"
    /\ Len(sent) = 2

\* C15: an error of the query executor is never swallowed.  A command that
\* pg_hook.run raised on leaves its stage Failed with that error as the cause;
\* a query that pg_hook.get_first raised on gives its check the outcome Error
\* and leaves the gate Failed with that error as the cause.
C15_ExecutorErrorsSurface ==
    /\ \A i \in DOMAIN sent :
          sent[i].result # "ok" =>
              /\ status[sent[i].stage] = "Failed"
              /\ cause[sent[i].stage] = Exc("DatabaseError", <<sent[i].result>>)
    /\ \A s \in Gates : \A k \in ChecksOf(s) :
          checks[s][k].result.kind = "raise" =>
              /\ checks[s][k].outcome = "Error"
              /\ status[s] = "Failed"
              /\ cause[s] = Exc("DatabaseError", <<checks[s][k].result.err>>)

C15_Witness ==
    /\ sent # <<>>
    /\ sent[Len(sent)].stage = StageOf("load_silver")
    /\ sent[Len(sent)].result = "permission denied"
    /\ status[StageOf("load_silver")] = "Failed"

\* C18: when the gold script cannot be read (it is not there and
\* read_sql_file raises FileNotFoundError with its own message, or open() or
\* read() raised another exception, which read_sql_file lets through as it
\* is), create_gold_views ends Failed with that exception, no command of that
\* stage was sent, and check_gold_quality is never executed.
C18_MissingScriptSendsNothing ==
    \A i \in DOMAIN reads :
        reads[i].opened # OpenOk =>
            /\ status[StageOf("create_gold_views")] = "Failed"
            /\ cause[StageOf("create_gold_views")] =
                  IF reads[i].opened.type = "FileNotFoundError"
                  THEN Exc("FileNotFoundError",
                           <<"[x] CRITICAL: SQL file not found at ", reads[i].path>>)
                  ELSE Exc(reads[i].opened.type,
                           OpenErrorMsg(reads[i].opened, reads[i].path))
            /\ \A j \in DOMAIN sent : sent[j].stage # StageOf("create_gold_views")
            /\ NeverExecuted(GoldQc)
            /\ status[GoldQc] \in {"Pending", "Skipped"}

C18_Witness ==
    /\ runState = "Aborted"
    /\ Len(reads) = 1
    /\ reads[1].path = gold_file_path
    /\ reads[1].opened.type = "FileNotFoundError"
    /\ Len(sent) = 2
    /\ status[GoldQc] = "Skipped"


\* C13: the DAG run twice against a deterministic executor, whose answer is a
\* function of the command or query it is sent, the same in both runs: the
\* second run ends with the report of the first, the same state of every
\* stage, the same outcome of every check, the same terminal state and the
\* same cause.
C13_SameReportTwice ==
    (runNo = 2 /\ Terminal) => Report = report1

C13_Witness ==
    /\ runNo = 2
    /\ runState = "Aborted"
    /\ report1.runState = "Aborted"
    /\ status[GoldQc] = "Failed"
    /\ checks[GoldQc][4].outcome = "Failed"
    /\ report1.checks[GoldQc][4].outcome = "Failed"


\* C17: with two runs at once, the gold script of a run is executed only on
\* Silver content that satisfies the assertions of the silver gate.
C17_GoldOnValidatedSilver ==
    \A r \in Runs :
        goldBuiltOn[r].built => SilverGateExc(goldBuiltOn[r].data) = NoExc

====
